---- MODULE Spec2Model ----
(***************************************************************************)
(* RepoToImage (src/main.py): the banner formatting of                     *)
(* assemble_repository_into_string, the wrapping, layout and draw loop of  *)
(* text_to_image, and the column search of calculate_optimal_columns.      *)
(*                                                                         *)
(* Python's "/" on two ints is IEEE-754 binary64 division, correctly       *)
(* rounded; the subtraction of TARGET_ASPECT_RATIO and the "<" of line 163 *)
(* act on binary64 values.  They are modelled bit by bit (a 53-bit         *)
(* significand as a sequence of bits), because two candidates whose        *)
(* distances are equal as real numbers may differ after rounding.          *)
(* Strings are sequences of one-character strings.                         *)
(***************************************************************************)
EXTENDS Integers, Sequences, FiniteSets, TLC

\* ------------------------------------------------------------------------
\* Program constants (src/main.py:9-12)
IMAGE_PADDING == 10
LINE_CHAR_LIMIT == 150
TARGET_ASPECT_RATIO == 1

\* Significand width of a Python float (binary64).
Prec == 53

\* ------------------------------------------------------------------------
\* Bounds of the model
MaxWidth == 10       \* line_width argument of a direct call, 0..MaxWidth
MaxHeight == 20      \* line_height argument of a direct call, 0..MaxHeight
MaxLines == 10       \* lines_count argument of a direct call, 0..MaxLines
MaxMetric == 3       \* font metrics measured in text_to_image, 0..MaxMetric
MaxTextLen == 4      \* characters of the text given to text_to_image
MaxNameLen == 153    \* characters of a repository filename
MaxFiles == 1        \* filenames listed by git ls-tree
\* The search loop is cut off here; the code's loop has no such limit.
MaxColumns == MaxLines + MaxHeight + 2

\* ------------------------------------------------------------------------
\* binary64 values that are >= 0: kind 0 is 0.0, kind 2 is inf, kind 1 is
\* the normal number (0.m[1]m[2]...m[53])_2 * 2^e with m[1] = 1.
Zeros(k) == [i \in 1..k |-> 0]

DZero == [kind |-> 0, e |-> 0, m |-> Zeros(Prec)]

DInf == [kind |-> 2, e |-> 0, m |-> Zeros(Prec)]

DOne == [kind |-> 1, e |-> 1, m |-> [i \in 1..Prec |-> IF i = 1 THEN 1 ELSE 0]]

\* A value that is used more than once is bound by a quantifier over a
\* one-element set (The({e(v) : v \in {value}})), so that it is computed once.
The(S) == CHOOSE x \in S : TRUE

\* The bits of a function over 1..k as a tuple.
Bits(f) == f \o << >>

\* The index of the first, and of the last, bit of b that equals v.
FirstBit(b, v, hi) == {k \in 1..hi : b[k] = v /\ \A l \in 1..(k-1) : b[l] # v}

LastBit(b, v, hi) == {k \in 1..hi : b[k] = v /\ \A l \in (k+1)..hi : b[l] # v}

\* b + 1 ulp for a significand that is not all ones.
Increment(b) ==
    The({ Bits([i \in 1..Len(b) |-> IF i < j THEN b[i] ELSE IF i = j THEN 1 ELSE 0]) :
          j \in LastBit(b, 0, Len(b)) })

\* Round-to-nearest, ties-to-even, of (0.b[1]b[2]...)_2 * 2^e with b[1] = 1.
RoundBits(b, e) ==
    IF Len(b) <= Prec
    THEN [kind |-> 1, e |-> e, m |-> b \o Zeros(Prec - Len(b))]
    ELSE IF ~(b[Prec+1] = 1 /\ (b[Prec] = 1 \/ \E i \in (Prec+2)..Len(b) : b[i] = 1))
    THEN [kind |-> 1, e |-> e, m |-> SubSeq(b, 1, Prec)]
    ELSE IF \A i \in 1..Prec : b[i] = 1
    THEN [kind |-> 1, e |-> e + 1, m |-> DOne.m]
    ELSE The({ [kind |-> 1, e |-> e, m |-> Increment(head)] : head \in {SubSeq(b, 1, Prec)} })

RoundToDouble(b0, e) == The({ RoundBits(b, e) : b \in {Bits(b0)} })

\* Strip the leading zero bits of a non-zero bit string and round.
StripAndRound(r, e) ==
    The({ The({ RoundBits(t, e - k + 1) : t \in {SubSeq(r, k, Len(r))} }) :
          k \in FirstBit(r, 1, Len(r)) })

Normalize(r0, e) == The({ StripAndRound(r, e) : r \in {Bits(r0)} })

\* Scale a/b (a, b > 0) into [1/2, 1): <<a', b', e>> with a/b = a'/b' * 2^e.
RECURSIVE NormExp(_, _, _)
NormExp(a, b, e) ==
    IF a >= b THEN NormExp(a, 2 * b, e + 1)
    ELSE IF 2 * a < b THEN NormExp(2 * a, b, e - 1)
    ELSE <<a, b, e>>

\* Long division of a/b (0 < a < b), nine bits at a time: the remainders
\* a * 512^j mod b for j = 0..n.
RECURSIVE Remainders(_, _, _)
Remainders(r, b, n) ==
    IF n = 0 THEN << r >> ELSE << r >> \o Remainders((r * 512) % b, b, n - 1)

PlaceValues == << 256, 128, 64, 32, 16, 8, 4, 2, 1 >>

\* The first Prec + 1 bits of a/b after the binary point (Prec + 1 is a
\* multiple of nine), then one sticky bit telling whether a remainder is left.
DivBits(a, b) ==
    The({ [i \in 1..(Prec + 2) |->
              IF i <= Prec + 1
              THEN (((rem[((i - 1) \div 9) + 1] * 512) \div b)
                      \div PlaceValues[((i - 1) % 9) + 1]) % 2
              ELSE IF rem[Len(rem)] = 0 THEN 0 ELSE 1] :
          rem \in {Remainders(a, b, (Prec + 1) \div 9)} })

\* a / b for ints a >= 0, b > 0 (true division, correctly rounded).
TrueDiv(a, b) ==
    IF a = 0 THEN DZero
    ELSE The({ RoundToDouble(DivBits(n[1], n[2]), n[3]) : n \in {NormExp(a, b, 0)} })

\* x - 1 for a binary64 x > 1: borrow from the lowest set bit at or above
\* the units bit; the result is exact.
MinusOne(x) ==
    The({ Normalize([i \in 1..Prec |-> IF i < j THEN x.m[i]
                                       ELSE IF i = j THEN 0
                                       ELSE IF i <= x.e THEN 1 ELSE x.m[i]], x.e) :
          j \in LastBit(x.m, 1, x.e) })

\* 1 - x for the fraction bits F of a binary64 0 < x < 1: two's complement,
\* then rounding.
OneMinus(F) ==
    The({ Normalize([i \in 1..Len(F) |-> IF i < q THEN 1 - F[i] ELSE F[i]], 0) :
          q \in LastBit(F, 1, Len(F)) })

AbsMinusOne(x) ==
    IF x.kind = 0 THEN DOne
    ELSE IF x = DOne THEN DZero
    ELSE IF x.e >= 1 THEN MinusOne(x)
    ELSE The({ OneMinus(F) : F \in {Zeros(0 - x.e) \o x.m} })

\* abs(x - TARGET_ASPECT_RATIO) for a binary64 x >= 0; the target is 1.
AbsMinusTarget(x0) == The({ AbsMinusOne(x) : x \in {x0} })

LexLess(a, b) ==
    \E i \in 1..Prec : a[i] < b[i] /\ \A j \in 1..(i-1) : a[j] = b[j]

\* x < y on binary64 values (line 163).
DLess(x0, y0) ==
    \E x \in {x0}, y \in {y0} :
        \/ x.kind < y.kind
        \/ /\ x.kind = 1 /\ y.kind = 1
           /\ (x.e < y.e \/ (x.e = y.e /\ LexLess(x.m, y.m)))

RECURSIVE BitsToInt(_, _)
BitsToInt(b, k) == IF k = 0 THEN 0 ELSE 2 * BitsToInt(b, k - 1) + b[k]

\* math.floor and math.ceil of a binary64 x >= 0 below 2^30.
DFloor(x0) ==
    The({ IF x.kind = 0 \/ x.e <= 0 THEN 0 ELSE BitsToInt(x.m, x.e) : x \in {x0} })

DCeil(x0) ==
    The({ IF x.kind = 0 THEN 0
          ELSE IF x.e <= 0 THEN 1
          ELSE BitsToInt(x.m, x.e)
               + (IF \E i \in (x.e + 1)..Prec : x.m[i] = 1 THEN 1 ELSE 0) : x \in {x0} })

FloorDiv(a, b) == DFloor(TrueDiv(a, b))

\* ceil(a / b) of lines 105 and 151.
CeilDivRoundedDown(a, b) == DFloor(TrueDiv(a, b))

CeilDiv(a, b) == DCeil(TrueDiv(a, b))

\* ------------------------------------------------------------------------
\* Strings
Alphabet == {"a", " ", "\n"}

SeqsUpTo(S, k) == UNION {[1..j -> S] : j \in 0..k}

Min(a, b) == IF a < b THEN a ELSE b

Max(a, b) == IF a > b THEN a ELSE b

\* s[:k] for k >= 0
Prefix(s, k) == SubSeq(s, 1, Min(k, Len(s)))

\* s[-k:] for k > 0
Suffix(s, k) == SubSeq(s, Max(1, Len(s) - k + 1), Len(s))

\* c * k
Repeat(c, k) == [i \in 1..k |-> c]

\* text.split('\n'): always at least one (possibly empty) line
RECURSIVE Split(_)
Split(s) ==
    IF \A i \in 1..Len(s) : s[i] # "\n" THEN << s >>
    ELSE LET k == CHOOSE i \in 1..Len(s) : s[i] = "\n" /\ \A j \in 1..(i-1) : s[j] # "\n"
         IN  << SubSeq(s, 1, k - 1) >> \o Split(SubSeq(s, k + 1, Len(s)))

\* textwrap.wrap(line, width=LINE_CHAR_LIMIT) for a line of spaces and
\* letters that is not longer than the width: nothing is broken, trailing
\* whitespace is dropped, and a line of whitespace only gives no line at all.
TextwrapWrap(line) ==
    IF \A i \in 1..Len(line) : line[i] = " " THEN << >>
    ELSE LET k == CHOOSE i \in 1..Len(line) :
                     line[i] # " " /\ \A j \in (i+1)..Len(line) : line[j] = " "
         IN  << SubSeq(line, 1, k) >>

\* line 100
WrapWithoutEmptyCase(line) == TextwrapWrap(line)

WrapOriginalLine(line) == IF line = << >> THEN << << >> >> ELSE TextwrapWrap(line)

\* ------------------------------------------------------------------------
\* State
VARIABLES
    pc,                 \* position of the run
    exit_status,        \* 0 while running, 1 after exit(1)
    \* text_to_image
    text, font, x_pos, y_pos, line_height, line_width,
    original_lines, wrap_i, wrapped_lines, lines_count,
    columns, lines_per_column, img, current_line_num, draw_i,
    drawn,              \* the draw.text calls made so far, in order
    saved,              \* img.save was called
    \* calculate_optimal_columns
    best_columns, best_difference_from_target, current_tested_columns,
    returned,           \* its return value
    \* assemble_repository_into_string
    repo_filenames, file_i, formatted_filename, assembled_string

ttiVars == <<text, font, x_pos, y_pos, original_lines, wrap_i, wrapped_lines,
             columns, lines_per_column, img, current_line_num, draw_i, drawn, saved>>

argVars == <<line_height, line_width, lines_count>>

calcVars == <<best_columns, best_difference_from_target, current_tested_columns, returned>>

asmVars == <<repo_filenames, file_i, formatted_filename, assembled_string>>

vars == <<pc, exit_status, ttiVars, argVars, calcVars, asmVars>>

NoImage == <<0, 0>>

\* Values of the locals that no statement has assigned yet.
TtiUnset ==
    /\ font = "none" /\ x_pos = 0 /\ y_pos = 0
    /\ original_lines = << >> /\ wrap_i = 0 /\ wrapped_lines = << >>
    /\ columns = 0 /\ lines_per_column = 0 /\ img = NoImage
    /\ current_line_num = 0 /\ draw_i = 0 /\ drawn = << >> /\ saved = FALSE

CalcUnset ==
    /\ best_columns = 0 /\ best_difference_from_target = DInf
    /\ current_tested_columns = 0 /\ returned = 0

AsmUnset ==
    /\ repo_filenames = << >> /\ file_i = 0
    /\ formatted_filename = << >> /\ assembled_string = << >>

\* ------------------------------------------------------------------------
\* calculate_optimal_columns

\* line 135
InvalidMetricsStrict(h, w) == h < 0 \/ w < 0

InvalidMetrics(h, w) == h <= 0 \/ w <= 0

\* lines 147-160 for candidate c; the division of line 157 needs a
\* non-zero total_height
TotalHeight(h, n, c) == CeilDiv(n, c) * h

Difference(w, h, n, c) ==
    The({ AbsMinusTarget(TrueDiv(c * w, total_height)) :
          total_height \in {TotalHeight(h, n, c)} })

\* line 164
KeepBestDifference(difference, best) == best

NewBestDifference(difference, best) == difference

\* line 168
ReturnTestedColumns(best, tested) == tested

ReturnedColumns(best, tested) == best

\* lines 135-142
CalcCheck ==
    /\ pc = "calc_check"
    /\ IF InvalidMetrics(line_height, line_width)
       THEN /\ pc' = "exit"
            /\ exit_status' = 1
            /\ UNCHANGED calcVars
       ELSE /\ pc' = "calc_loop"
            /\ best_columns' = 0
            /\ best_difference_from_target' = DInf
            /\ current_tested_columns' = 0
            /\ UNCHANGED <<exit_status, returned>>
    /\ UNCHANGED <<ttiVars, argVars, asmVars>>

\* lines 145-157: total_height is 0 and the division raises
CalcLoopZeroDivision ==
    /\ pc = "calc_loop"
    /\ current_tested_columns < MaxColumns
    /\ TotalHeight(line_height, lines_count, current_tested_columns + 1) = 0
    /\ current_tested_columns' = current_tested_columns + 1
    /\ pc' = "ZeroDivisionError"
    /\ exit_status' = 1
    /\ UNCHANGED <<best_columns, best_difference_from_target, returned>>
    /\ UNCHANGED <<ttiVars, argVars, asmVars>>

\* lines 145-165: the candidate is strictly better
CalcLoopImprove ==
    /\ pc = "calc_loop"
    /\ current_tested_columns < MaxColumns
    /\ TotalHeight(line_height, lines_count, current_tested_columns + 1) # 0
    /\ \E difference \in {Difference(line_width, line_height, lines_count,
                                      current_tested_columns + 1)} :
           /\ DLess(difference, best_difference_from_target)
           /\ best_difference_from_target' =
                  NewBestDifference(difference, best_difference_from_target)
    /\ current_tested_columns' = current_tested_columns + 1
    /\ best_columns' = current_tested_columns + 1
    /\ UNCHANGED <<pc, exit_status, returned>>
    /\ UNCHANGED <<ttiVars, argVars, asmVars>>

\* lines 145-168: the candidate is not strictly better
CalcLoopReturn ==
    /\ pc = "calc_loop"
    /\ current_tested_columns < MaxColumns
    /\ TotalHeight(line_height, lines_count, current_tested_columns + 1) # 0
    /\ ~DLess(Difference(line_width, line_height, lines_count,
                         current_tested_columns + 1),
              best_difference_from_target)
    /\ current_tested_columns' = current_tested_columns + 1
    /\ returned' = ReturnedColumns(best_columns, current_tested_columns + 1)
    /\ pc' = "calc_return"
    /\ UNCHANGED <<exit_status, best_columns, best_difference_from_target>>
    /\ UNCHANGED <<ttiVars, argVars, asmVars>>

\* A direct call calculate_optimal_columns(line_width, line_height, lines_count)
InitColumns ==
    /\ pc = "calc_check"
    /\ exit_status = 0
    /\ line_width \in 0..MaxWidth
    /\ line_height \in 0..MaxHeight
    /\ lines_count \in 0..MaxLines
    /\ text = << >>
    /\ TtiUnset /\ CalcUnset /\ AsmUnset

NextColumns == CalcCheck \/ CalcLoopZeroDivision \/ CalcLoopImprove \/ CalcLoopReturn

SpecColumns == InitColumns /\ [][NextColumns]_vars

\* The interpreter runs the loop body again as long as it has not returned.
FairSpecColumns == SpecColumns /\ WF_vars(NextColumns)

\* ------------------------------------------------------------------------
\* text_to_image

\* line 120
ColumnFullEarly(line_num, per_column) == line_num >= per_column

ColumnFull(line_num, per_column) == line_num > per_column

\* lines 81-93: the font is loaded or replaced by the default font, and its
\* boxes give the two metrics; the boxes are whatever the font says.
LoadFont ==
    /\ pc = "tti_font"
    /\ font' \in {"truetype", "default"}
    /\ x_pos' = IMAGE_PADDING
    /\ y_pos' = IMAGE_PADDING
    /\ \E bottom \in (0 - 2)..(MaxMetric - 2) : line_height' = bottom + 2
    /\ line_width' \in 0..MaxMetric
    /\ pc' = "tti_split"
    /\ UNCHANGED <<exit_status, text, original_lines, wrap_i, wrapped_lines, lines_count,
                   columns, lines_per_column, img, current_line_num, draw_i, drawn, saved>>
    /\ UNCHANGED <<calcVars, asmVars>>

\* lines 95-98
SplitText ==
    /\ pc = "tti_split"
    /\ original_lines' = Split(text)
    /\ wrapped_lines' = << >>
    /\ wrap_i' = 1
    /\ pc' = "tti_wrap"
    /\ UNCHANGED <<exit_status, text, font, x_pos, y_pos, columns, lines_per_column, img,
                   current_line_num, draw_i, drawn, saved>>
    /\ UNCHANGED <<argVars, calcVars, asmVars>>

\* lines 99-101, one original line
WrapLine ==
    /\ pc = "tti_wrap"
    /\ wrap_i <= Len(original_lines)
    /\ wrapped_lines' = wrapped_lines \o WrapOriginalLine(original_lines[wrap_i])
    /\ wrap_i' = wrap_i + 1
    /\ UNCHANGED <<pc, exit_status, text, font, x_pos, y_pos, original_lines, columns,
                   lines_per_column, img, current_line_num, draw_i, drawn, saved>>
    /\ UNCHANGED <<argVars, calcVars, asmVars>>

\* lines 102-104: the count, and the call of calculate_optimal_columns
CountLines ==
    /\ pc = "tti_wrap"
    /\ wrap_i > Len(original_lines)
    /\ lines_count' = Len(wrapped_lines)
    /\ pc' = "calc_check"
    /\ UNCHANGED <<exit_status, line_height, line_width>>
    /\ UNCHANGED <<ttiVars, calcVars, asmVars>>

\* lines 104-114: the layout plan and the blank image
Layout ==
    /\ pc = "calc_return"
    /\ columns' = returned
    /\ IF returned = 0
       THEN /\ pc' = "ZeroDivisionError"
            /\ exit_status' = 1
            /\ UNCHANGED <<lines_per_column, img, current_line_num, draw_i>>
       ELSE /\ lines_per_column' = CeilDiv(lines_count, returned)
            /\ img' = << line_width * returned + IMAGE_PADDING * (returned + 1),
                         lines_per_column' * line_height + IMAGE_PADDING * 2 >>
            /\ current_line_num' = 1
            /\ draw_i' = 1
            /\ pc' = "tti_draw"
            /\ UNCHANGED exit_status
    /\ UNCHANGED <<text, font, x_pos, y_pos, original_lines, wrap_i, wrapped_lines,
                   drawn, saved>>
    /\ UNCHANGED <<argVars, calcVars, asmVars>>

\* lines 115-123, one wrapped line
DrawLine ==
    /\ pc = "tti_draw"
    /\ draw_i <= Len(wrapped_lines)
    /\ drawn' = Append(drawn, [text |-> wrapped_lines[draw_i], x |-> x_pos, y |-> y_pos])
    /\ draw_i' = draw_i + 1
    /\ IF ColumnFull(current_line_num + 1, lines_per_column)
       THEN /\ current_line_num' = 1
            /\ x_pos' = x_pos + line_width + IMAGE_PADDING
            /\ y_pos' = IMAGE_PADDING
       ELSE /\ current_line_num' = current_line_num + 1
            /\ x_pos' = x_pos
            /\ y_pos' = y_pos + line_height
    /\ UNCHANGED <<pc, exit_status, text, font, original_lines, wrap_i, wrapped_lines,
                   columns, lines_per_column, img, saved>>
    /\ UNCHANGED <<argVars, calcVars, asmVars>>

\* lines 126-127
SaveImage ==
    /\ pc = "tti_draw"
    /\ draw_i > Len(wrapped_lines)
    /\ saved' = TRUE
    /\ pc' = "done"
    /\ UNCHANGED <<exit_status, text, font, x_pos, y_pos, original_lines, wrap_i,
                   wrapped_lines, columns, lines_per_column, img, current_line_num,
                   draw_i, drawn>>
    /\ UNCHANGED <<argVars, calcVars, asmVars>>

\* text_to_image(text, ...) is entered
Init ==
    /\ pc = "tti_font"
    /\ exit_status = 0
    /\ text \in SeqsUpTo(Alphabet, MaxTextLen)
    /\ line_height = 0 /\ line_width = 0 /\ lines_count = 0
    /\ TtiUnset /\ CalcUnset /\ AsmUnset

Next ==
    \/ LoadFont \/ SplitText \/ WrapLine \/ CountLines
    \/ CalcCheck \/ CalcLoopZeroDivision \/ CalcLoopImprove \/ CalcLoopReturn
    \/ Layout \/ DrawLine \/ SaveImage

Spec == Init /\ [][Next]_vars

\* ------------------------------------------------------------------------
\* assemble_repository_into_string

FileContent == << "x", "\n" >>

\* lines 49-53
FormatFilename(repo_filename) ==
    IF Len(repo_filename) > LINE_CHAR_LIMIT
    THEN Prefix(repo_filename, 22) \o << ".", ".", "." >>
         \o Suffix(repo_filename, LINE_CHAR_LIMIT - 25)
    ELSE LET empty_space_length == FloorDiv(LINE_CHAR_LIMIT - Len(repo_filename), 2)
         IN  Repeat("*", empty_space_length) \o repo_filename
             \o Repeat("*", empty_space_length)

\* lines 37-44: the path is a directory or the run ends; the listing is the
\* output of git ls-tree
AssembleStart ==
    /\ pc = "asm_start"
    /\ \E isdir \in BOOLEAN :
          IF isdir
          THEN /\ pc' = "asm_format"
               /\ file_i' = 1
               /\ UNCHANGED exit_status
          ELSE /\ pc' = "exit"
               /\ exit_status' = 1
               /\ UNCHANGED file_i
    /\ assembled_string' = << >>
    /\ UNCHANGED <<repo_filenames, formatted_filename>>
    /\ UNCHANGED <<ttiVars, argVars, calcVars>>

\* lines 46-59: the banner of one file
AppendBanner ==
    /\ pc = "asm_format"
    /\ file_i <= Len(repo_filenames)
    /\ formatted_filename' = FormatFilename(repo_filenames[file_i])
    /\ assembled_string' = assembled_string \o << "\n", "\n" >> \o formatted_filename'
                           \o << "\n", "\n" >>
    /\ pc' = "asm_read"
    /\ UNCHANGED <<exit_status, repo_filenames, file_i>>
    /\ UNCHANGED <<ttiVars, argVars, calcVars>>

\* lines 61-67: the content of the file, or the text that stands for a
\* binary file or a directory
ReadFile ==
    /\ pc = "asm_read"
    /\ \E content \in {FileContent, << "(Binary file)" >>,
                       << "(Is a directory - possibly a submodule)" >>} :
          assembled_string' = assembled_string \o content
    /\ file_i' = file_i + 1
    /\ pc' = "asm_format"
    /\ UNCHANGED <<exit_status, repo_filenames, formatted_filename>>
    /\ UNCHANGED <<ttiVars, argVars, calcVars>>

\* lines 69-71
AssembleReturn ==
    /\ pc = "asm_format"
    /\ file_i > Len(repo_filenames)
    /\ pc' = "asm_return"
    /\ UNCHANGED <<exit_status, asmVars>>
    /\ UNCHANGED <<ttiVars, argVars, calcVars>>

\* assemble_repository_into_string(repo_path) is entered; the filenames are
\* the lines git ls-tree will print (at least one, possibly empty)
InitBanner ==
    /\ pc = "asm_start"
    /\ exit_status = 0
    /\ repo_filenames \in UNION {[1..k -> {Repeat("f", l) : l \in 0..MaxNameLen}] :
                                  k \in 1..MaxFiles}
    /\ file_i = 0 /\ formatted_filename = << >> /\ assembled_string = << >>
    /\ text = << >>
    /\ line_height = 0 /\ line_width = 0 /\ lines_count = 0
    /\ TtiUnset /\ CalcUnset

NextBanner == AssembleStart \/ AppendBanner \/ ReadFile \/ AssembleReturn

SpecBanner == InitBanner /\ [][NextBanner]_vars

\* ------------------------------------------------------------------------
\* Properties

\* The distance |c*w / (ceil(n/c)*h) - TARGET_ASPECT_RATIO| as a fraction of
\* integers <<numerator, denominator>>, without rounding.
ExactCeil(a, b) == (a + b - 1) \div b

Abs(i) == IF i < 0 THEN 0 - i ELSE i

ExactDistance(w, h, n, c) ==
    << Abs(c * w - TARGET_ASPECT_RATIO * ExactCeil(n, c) * h), ExactCeil(n, c) * h >>

ExactLess(p, q) == p[1] * q[2] < q[1] * p[2]

ValidArguments == lines_count >= 1 /\ line_width > 0 /\ line_height > 0

Distance(c) == ExactDistance(line_width, line_height, lines_count, c)

\* C1 as stated: for lines_count >= 1 and positive metrics the returned
\* column count c satisfies 1 <= c <= lines_count.
C1_ColumnsAtMostLines ==
    (pc = "calc_return" /\ ValidArguments)
        => (1 <= returned /\ returned <= lines_count)

\* C1 amended: the returned column count is at least 1, and it is at most
\* lines_count whenever lines_count * line_width >= line_height (the single
\* column of one line per column is then already at least as wide as high).
C1_ColumnsAtMostLinesWhenWide ==
    (pc = "calc_return" /\ ValidArguments)
        => /\ 1 <= returned
           /\ (lines_count * line_width >= line_height => returned <= lines_count)

C1_Witness ==
    /\ pc = "calc_return" /\ ValidArguments
    /\ lines_count * line_width >= line_height
    /\ lines_count >= 2 /\ returned = lines_count

\* C2 as stated: for lines_count >= 1 the layout plan of text_to_image has
\* columns * lines_per_column >= lines_count and
\* (columns - 1) * lines_per_column < lines_count.
C2_NoUnusedColumn ==
    (pc \in {"tti_draw", "done"} /\ lines_count >= 1)
        => /\ columns * lines_per_column >= lines_count
           /\ (columns - 1) * lines_per_column < lines_count

\* C2 amended: the plan always has room for every line, and no column is
\* left entirely unused whenever line_width >= line_height.
C2_NoUnusedColumnWhenWide ==
    (pc \in {"tti_draw", "done"} /\ lines_count >= 1)
        => /\ columns * lines_per_column >= lines_count
           /\ (line_width >= line_height
                  => (columns - 1) * lines_per_column < lines_count)

C2_Witness ==
    /\ pc = "done" /\ line_width >= line_height
    /\ columns >= 2 /\ columns * lines_per_column > lines_count

\* C3 as stated: the returned count is the smallest c >= 1 that attains the
\* least distance |c*w / (ceil(n/c)*h) - target| over all c >= 1 (beyond
\* MaxColumns the distance only grows).
C3_SmallestGlobalMinimum ==
    (pc = "calc_return" /\ ValidArguments)
        => \A c \in 1..MaxColumns :
              /\ ~ExactLess(Distance(c), Distance(returned))
              /\ (c < returned => ExactLess(Distance(returned), Distance(c)))

\* C4: the k-th draw.text call draws the k-th wrapped line at the column
\* (k-1) div lines_per_column and the row (k-1) mod lines_per_column, and
\* when the image is saved every wrapped line has been drawn.
C4_ColumnMajorPositions ==
    /\ Len(drawn) <= Len(wrapped_lines)
    /\ (pc = "done" => Len(drawn) = Len(wrapped_lines))
    /\ \A k \in 1..Len(drawn) :
          drawn[k] = [text |-> wrapped_lines[k],
                      x |-> ((k - 1) \div lines_per_column)
                            * (line_width + IMAGE_PADDING) + IMAGE_PADDING,
                      y |-> ((k - 1) % lines_per_column) * line_height + IMAGE_PADDING]

C4_Witness ==
    /\ pc = "done" /\ Len(drawn) >= 4
    /\ columns >= 2 /\ lines_per_column >= 2
    /\ drawn[lines_per_column + 1].x > IMAGE_PADDING

\* C5 as stated: with lines_count = 0 and positive metrics the call does
\* not fail and returns 1.
C5_ZeroLinesReturnsOne ==
    (lines_count = 0 /\ line_width > 0 /\ line_height > 0)
        => /\ pc \in {"calc_check", "calc_loop", "calc_return"}
           /\ (pc = "calc_return" => returned = 1)

Scenario == line_width = 10 /\ line_height = 20 /\ lines_count = 10

\* C6 as stated: for 10 lines of width 10 and height 20 the search evaluates
\* exactly the candidates 1..4 and returns the one nearest the target.
C6_ScenarioFourCandidates ==
    (Scenario /\ pc = "calc_return")
        => /\ current_tested_columns = 4
           /\ \A c \in 1..MaxColumns : ~ExactLess(Distance(c), Distance(returned))

\* C6 amended: for that input the search evaluates exactly the candidates
\* 1..6 and returns 5, the candidate nearest the target.
C6_ScenarioSixCandidates ==
    Scenario
        => /\ current_tested_columns <= 6
           /\ (pc = "calc_return"
                  => /\ current_tested_columns = 6
                     /\ returned = 5
                     /\ \A c \in 1..MaxColumns : ~ExactLess(Distance(c), Distance(5)))

C6_Witness == Scenario /\ pc = "calc_return" /\ best_columns = 5

\* C7: when the wrapping loop takes an empty original line it appends exactly
\* one empty wrapped line, and the empty text is wrapped into [""].
C7_EmptyLineKept ==
    /\ [][(/\ pc = "tti_wrap"
           /\ wrap_i <= Len(original_lines)
           /\ original_lines[wrap_i] = << >>)
            => wrapped_lines' = Append(wrapped_lines, << >>)]_vars
    /\ []((text = << >> /\ pc \notin {"tti_font", "tti_split", "tti_wrap"})
            => wrapped_lines = << << >> >>)

C7_Witness ==
    /\ pc = "calc_check"
    /\ Len(original_lines) = 3 /\ Len(wrapped_lines) = 3
    /\ original_lines[1] # << >> /\ original_lines[2] = << >>
    /\ wrapped_lines[2] = << >>

\* C8: with a non-positive line_width or line_height the run stops at the
\* check with exit status 1: no candidate is evaluated, nothing is returned,
\* and no image is created or saved.
C8_FatalOnNonPositiveMetrics ==
    (pc # "tti_font" /\ (line_width <= 0 \/ line_height <= 0))
        => /\ pc \in {"tti_split", "tti_wrap", "calc_check", "exit"}
           /\ (pc = "exit" => exit_status = 1)
           /\ current_tested_columns = 0 /\ returned = 0 /\ columns = 0
           /\ img = NoImage /\ drawn = << >> /\ saved = FALSE

C8_Witness ==
    /\ pc = "exit" /\ exit_status = 1
    /\ line_width > 0 /\ line_height <= 0
    /\ Len(wrapped_lines) >= 2

\* C9 as stated: the banner of every filename is exactly LINE_CHAR_LIMIT
\* characters long.
C9_BannerExactWidth ==
    (pc = "asm_read") => Len(formatted_filename) = LINE_CHAR_LIMIT

\* C10: for lines_count >= 1 and positive metrics the search loop ends with
\* a return.
C10_SearchTerminates ==
    (pc = "calc_check" /\ ValidArguments) ~> (pc = "calc_return")

C10_Witness ==
    /\ pc = "calc_return" /\ ValidArguments
    /\ current_tested_columns >= 8 /\ returned = current_tested_columns - 1

====
